---- MODULE Spec2Model ----
\* A model of macos_audiounit.c: the render callback (a 440Hz sine
\* oscillator), the audio unit set-up and tear-down, and main with its
\* SIGINT driven wait loop.
\*
\* Float64 phase arithmetic is modelled exactly, as rationals over the
\* denominator `frequency`: the model's generator holds generator * 440 and
\* the model's sample period holds samplePeriod * 440 = samplerate.  The
\* values the oscillator takes from an integral phase (k - m * samplePeriod)
\* are then integers.  Rounding of Float64/Float32 is not modelled.
\*
\* The render callback runs on the render thread of the os, one frame of
\* its loop per step; main runs on the main thread.
EXTENDS Integers, Sequences, FiniteSets

VARIABLES
    context,     \* AudioContext: generator, samplerate, channels, audioUnit
    unit,        \* the audio unit as the os holds it
    pc,          \* position of the main thread
    shouldStop,  \* the global flag of line 154
    handler,     \* TRUE once signal(SIGINT, handleStopSignal) has run
    exitStatus,  \* what main returned (NoExit while it runs)
    stdout,      \* what main printed
    ret,         \* what startAudio returned (NoRet before it ran)
    attempted,   \* the set-up steps startAudio attempted, in order
    cb,          \* the current (pc = "loop") or last (pc = "idle") callback
                 \* invocation: its locals, its buffer and a trace of its loop
    stream,      \* per frame <<phase, sample>> rendered since the session began
    start,       \* the phase the session began with
    ref,         \* one callback invocation rendering all frames of the session
    callLog,     \* the frame counts of the callback invocations so far
    stopCalls    \* number of calls of stopAudio

vars == <<context, unit, pc, shouldStop, handler, exitStatus, stdout, ret,
          attempted, cb, stream, start, ref, callLog, stopCalls>>

----------------------------------------------------------------------------
\* Bounds

MaxFrames == 3
MaxCalls == 3
MaxChannels == 2
MaxTotal == 101
Slack == 2

\* frame counts of the 100 + 1 and the 101 frame scenarios
ScenarioFrames == {100, 101}
\* sample rates in Hz: periods of 1/2, 1, 3/2, 2 and 2205/22 frames
SampleRates == {220, 440, 660, 880, 44100}

----------------------------------------------------------------------------
\* Program constants

frequency == 440
noErr == 0
EXIT_SUCCESS == 0
EXIT_FAILURE == 1
MainSamplerate == 44100
MainChannels == 2
NoExit == -1
NoRet == -1
Pending == -1
FailureMessage == "Failed to start audio playback\n"

\* the Float64 constant 1.0 in units of 1/frequency
One == frequency

\* context->samplerate / frequency, in units of 1/frequency
samplePeriodOf(ctx) == ctx.samplerate

----------------------------------------------------------------------------
\* The render callback

RECURSIVE GCD(_, _)
GCD(a, b) == IF b = 0 THEN a ELSE GCD(b, a % b)

\* sinf(2 * M_PI * generator / samplePeriod): the sine is determined by the
\* fraction of a turn generator / samplePeriod modulo 1, which is what the
\* model keeps, in lowest terms.
sinf(generator, samplePeriod) ==
    LET r == generator % samplePeriod
        g == GCD(samplePeriod, r)
    IN  <<r \div g, samplePeriod \div g>>

\* a slot of the output buffer the callback has not written
Unwritten == <<-1, -1>>

\* i < inNumberFrames
FrameCond_NoZeroCheck(i, inNumberFrames) == i < inNumberFrames \/ i = 0
FrameCond(i, inNumberFrames) == i < inNumberFrames

\* generator > samplePeriod
WrapCond_Never(generator, samplePeriod) == FALSE
WrapCond_AtLeast(generator, samplePeriod) == generator >= samplePeriod
WrapCond(generator, samplePeriod) == generator > samplePeriod

\* generator += 1.0; if (generator > samplePeriod) generator -= samplePeriod;
NextPhase(generator, samplePeriod) ==
    LET inc     == generator + One
        wrapped == WrapCond(inc, samplePeriod)
    IN  [inc |-> inc, wrapped |-> wrapped,
         generator |-> IF wrapped THEN inc - samplePeriod ELSE inc]

\* channels * i + j
SlotIndex_Planar(channels, i, j) == i + j
SlotIndex(channels, i, j) == channels * i + j

\* for (int j=0; j<channels; ++j) data[channels * i + j] = sample;
RECURSIVE ChannelLoop(_, _, _, _, _)
ChannelLoop(j, channels, i, sample, buf) ==
    IF j < channels
    THEN LET s == SlotIndex(channels, i, j)
         IN  ChannelLoop(j + 1, channels, i, sample,
                 IF s \in DOMAIN buf.data
                 THEN [data   |-> [buf.data EXCEPT ![s] = sample],
                       writes |-> [buf.writes EXCEPT ![s] = @ + 1]]
                 ELSE buf)
    ELSE buf

\* context->generator = generator;
CommitGenerator_Dropped(ctx, generator) == ctx
CommitGenerator(ctx, generator) == [ctx EXCEPT !.generator = generator]

NoContext ==
    [generator |-> 0, samplerate |-> 0, channels |-> 0, audioUnit |-> "NULL"]

NoCall ==
    [pc |-> "idle", n |-> -1, i |-> 0, before |-> NoContext,
     generator |-> 0, samplePeriod |-> 0, channels |-> 0,
     data |-> <<>>, writes |-> <<>>,
     incs |-> <<>>, phases |-> <<>>, wraps |-> 0,
     status |-> Pending]

\* a single callback invocation entered on ctx, before its first frame
NewRef(ctx) ==
    [generator |-> ctx.generator, samplePeriod |-> samplePeriodOf(ctx),
     i |-> 0, stream |-> <<>>]

\* the os asks the running audio unit for n frames: the render thread
\* enters callback with a buffer of at least n * channels slots and reads
\* the context into its locals (lines 39-48)
CallbackEnter(n) ==
    /\ unit.running
    /\ cb.pc = "idle"
    /\ Len(callLog) < MaxCalls
    /\ Len(stream) + n <= MaxTotal
    /\ LET slots == 0..(n * context.channels + Slack - 1)
       IN  cb' = [pc |-> "loop", n |-> n, i |-> 0, before |-> context,
                  generator |-> context.generator,
                  samplePeriod |-> samplePeriodOf(context),
                  channels |-> context.channels,
                  data |-> [s \in slots |-> Unwritten],
                  writes |-> [s \in slots |-> 0],
                  incs |-> <<>>, phases |-> <<>>,
                  wraps |-> 0, status |-> Pending]
    /\ callLog' = Append(callLog, n)
    /\ UNCHANGED <<context, unit, pc, shouldStop, handler, exitStatus, stdout,
                   ret, attempted, stream, start, ref, stopCalls>>

\* the frame counts the os asks for: small ones on every session, those of
\* the scenarios on a session configured as main configures it
FrameCounts(ctx) ==
    (0..MaxFrames) \cup
        (IF ctx.samplerate = MainSamplerate /\ ctx.channels = MainChannels
         THEN ScenarioFrames ELSE {})

Render == \E n \in FrameCounts(context) : CallbackEnter(n)

\* one iteration of the loop over the frames (lines 49-59); the single
\* invocation `ref` renders the same frame of the session
CallbackFrame ==
    /\ cb.pc = "loop"
    /\ pc \notin {"killed"}
    /\ FrameCond(cb.i, cb.n)
    /\ LET p      == NextPhase(cb.generator, cb.samplePeriod)
           sample == sinf(p.generator, cb.samplePeriod)
           buf    == ChannelLoop(0, cb.channels, cb.i, sample,
                                 [data |-> cb.data, writes |-> cb.writes])
           q      == NextPhase(ref.generator, ref.samplePeriod)
       IN  /\ cb' = [cb EXCEPT !.i = @ + 1,
                                !.generator = p.generator,
                                !.data = buf.data,
                                !.writes = buf.writes,
                                !.incs = Append(@, p.inc),
                                !.phases = Append(@, p.generator),
                                !.wraps = @ + (IF p.wrapped THEN 1 ELSE 0)]
           /\ stream' = Append(stream, <<p.generator, sample>>)
           /\ ref' = [ref EXCEPT !.generator = q.generator,
                                  !.i = @ + 1,
                                  !.stream = Append(@,
                                      <<q.generator,
                                        sinf(q.generator, ref.samplePeriod)>>)]
    /\ UNCHANGED <<context, unit, pc, shouldStop, handler, exitStatus, stdout,
                   ret, attempted, start, callLog, stopCalls>>

\* the loop is over: context->generator = generator; return noErr;
CallbackReturn ==
    /\ cb.pc = "loop"
    /\ pc \notin {"killed"}
    /\ ~FrameCond(cb.i, cb.n)
    /\ context' = CommitGenerator(context, cb.generator)
    /\ cb' = [cb EXCEPT !.pc = "idle", !.status = noErr]
    /\ UNCHANGED <<unit, pc, shouldStop, handler, exitStatus, stdout, ret,
                   attempted, stream, start, ref, callLog, stopCalls>>

RenderThread == Render \/ CallbackFrame \/ CallbackReturn

\* a callback invocation has returned
Returned == cb.pc = "idle" /\ cb.n >= 0

----------------------------------------------------------------------------
\* The audio unit set-up and tear-down

Steps == 1..6

NoUnit ==
    [instance |-> FALSE, inputProc |-> FALSE, format |-> FALSE,
     initialized |-> FALSE, running |-> FALSE]

StartResult(r, ctx, u) ==
    [ret |-> r, context |-> ctx, unit |-> u,
     attempted |-> [k \in 1..(IF r = 0 THEN 6 ELSE r) |-> k]]

\* int startAudio(AudioContext *context); ok[k] tells whether the k-th call
\* into the audio unit api succeeds: AudioComponentFindNext,
\* AudioComponentInstanceNew, AudioUnitSetProperty(SetRenderCallback),
\* AudioUnitSetProperty(StreamFormat), AudioUnitInitialize,
\* AudioOutputUnitStart
startAudio(ctx, u, ok) ==
    IF ~ok[1] THEN StartResult(1, ctx, u)
    ELSE IF ~ok[2] THEN StartResult(2, ctx, u)
    ELSE LET c2 == [ctx EXCEPT !.audioUnit = "unit"]
             u2 == [u EXCEPT !.instance = TRUE]
         IN  IF ~ok[3] THEN StartResult(3, c2, u2)
             ELSE LET u3 == [u2 EXCEPT !.inputProc = TRUE]
                  IN  IF ~ok[4] THEN StartResult(4, c2, u3)
                      ELSE LET u4 == [u3 EXCEPT !.format = TRUE]
                           IN  IF ~ok[5] THEN StartResult(5, c2, u4)
                               ELSE LET u5 == [u4 EXCEPT !.initialized = TRUE]
                                    IN  IF ~ok[6] THEN StartResult(6, c2, u5)
                                        ELSE StartResult(0, c2,
                                                 [u5 EXCEPT !.running = TRUE])

\* void stopAudio(AudioContext *context)
stopAudio_ResetsGenerator(ctx, u) ==
    [context |-> [ctx EXCEPT !.audioUnit = "NULL", !.generator = 0],
     unit    |-> [u EXCEPT !.running = FALSE]]
stopAudio(ctx, u) ==
    IF ctx.audioUnit # "NULL"
    THEN [context |-> [ctx EXCEPT !.audioUnit = "NULL"],
          unit    |-> [u EXCEPT !.running = FALSE]]
    ELSE [context |-> ctx, unit |-> u]

----------------------------------------------------------------------------
\* main, the signal handler and the stop signal

\* while (!shouldStop)
LoopCond_Forever(flag) == TRUE
LoopCond(flag) == ~flag

\* what main prints when startAudio returned r # 0 (line 170)
MainReport(r) == <<FailureMessage>>

\* lines 164-167: the context on main's stack, and the fields main sets
MainInit ==
    /\ pc = "main"
    /\ context' = [context EXCEPT !.generator = 0,
                                  !.samplerate = MainSamplerate,
                                  !.channels = MainChannels]
    /\ start' = 0
    /\ ref' = NewRef(context')
    /\ pc' = "start"
    /\ UNCHANGED <<unit, shouldStop, handler, exitStatus, stdout, ret,
                   attempted, cb, stream, callLog, stopCalls>>

\* lines 169-172: if (startAudio(&context)) { printf(...); return EXIT_FAILURE; }
MainStart ==
    /\ pc = "start"
    /\ \E ok \in [Steps -> BOOLEAN] :
         LET r == startAudio(context, unit, ok)
         IN  /\ context' = r.context
             /\ unit' = r.unit
             /\ ret' = r.ret
             /\ attempted' = r.attempted
             /\ IF r.ret # 0
                THEN /\ stdout' = stdout \o MainReport(r.ret)
                     /\ exitStatus' = EXIT_FAILURE
                     /\ pc' = "failed"
                ELSE /\ pc' = "signal"
                     /\ UNCHANGED <<stdout, exitStatus>>
    /\ UNCHANGED <<shouldStop, handler, cb, stream, start, ref, callLog,
                   stopCalls>>

\* line 176: signal(SIGINT, handleStopSignal);
InstallHandler ==
    /\ pc = "signal"
    /\ handler' = TRUE
    /\ pc' = "loop"
    /\ UNCHANGED <<context, unit, shouldStop, exitStatus, stdout, ret,
                   attempted, cb, stream, start, ref, callLog, stopCalls>>

\* lines 181-183: while (!shouldStop) { usleep(500000); }
\* one test of the flag: main sleeps and tests again, or leaves the loop
LoopCheck ==
    /\ pc = "loop"
    /\ pc' = IF LoopCond(shouldStop) THEN "loop" ELSE "stop"
    /\ UNCHANGED <<context, unit, shouldStop, handler, exitStatus, stdout,
                   ret, attempted, cb, stream, start, ref, callLog, stopCalls>>

\* lines 185-187: stopAudio(&context); return EXIT_SUCCESS;
\* AudioOutputUnitStop returns once the render thread is out of the callback
MainStop ==
    /\ pc = "stop"
    /\ cb.pc = "idle"
    /\ LET r == stopAudio(context, unit)
       IN  /\ context' = r.context
           /\ unit' = r.unit
    /\ stopCalls' = stopCalls + 1
    /\ exitStatus' = EXIT_SUCCESS
    /\ pc' = "done"
    /\ UNCHANGED <<shouldStop, handler, stdout, ret, attempted, cb, stream,
                   start, ref, callLog>>

MainThread ==
    MainInit \/ MainStart \/ InstallHandler \/ LoopCheck \/ MainStop

\* SIGINT is delivered to the running process: handleStopSignal runs once
\* it is installed (line 159); before that the default disposition ends
\* the process, and with it the audio unit and its render thread
SigInt ==
    /\ pc \notin {"done", "failed", "killed"}
    /\ IF handler
       THEN /\ shouldStop' = TRUE
            /\ UNCHANGED <<pc, unit>>
       ELSE /\ pc' = "killed"
            /\ unit' = [unit EXCEPT !.running = FALSE]
            /\ UNCHANGED shouldStop
    /\ UNCHANGED <<context, handler, exitStatus, stdout, ret, attempted, cb,
                   stream, start, ref, callLog, stopCalls>>

\* main is entered: the fields of the context on its stack are
\* indeterminate, the audio unit does not exist yet
Init ==
    /\ context \in [generator : {0, 13}, samplerate : {0, 48000},
                    channels : {0, 5}, audioUnit : {"NULL", "garbage"}]
    /\ unit = NoUnit
    /\ pc = "main"
    /\ shouldStop = FALSE
    /\ handler = FALSE
    /\ exitStatus = NoExit
    /\ stdout = <<>>
    /\ ret = NoRet
    /\ attempted = <<>>
    /\ cb = NoCall
    /\ stream = <<>>
    /\ start = 0
    /\ ref = NewRef(NoContext)
    /\ callLog = <<>>
    /\ stopCalls = 0

Next ==
    \/ MainInit
    \/ MainStart
    \/ InstallHandler
    \/ LoopCheck
    \/ MainStop
    \/ SigInt
    \/ Render
    \/ CallbackFrame
    \/ CallbackReturn

Spec == Init /\ [][Next]_vars

\* the os schedules the main thread and the render thread
LiveSpec ==
    /\ Spec
    /\ WF_vars(MainThread)
    /\ WF_vars(CallbackFrame \/ CallbackReturn)

----------------------------------------------------------------------------
\* The callback on any valid session: the sample rate, the channel count
\* and the phase the session is at are drawn from bounded sets.

StartPhases(samplerate) ==
    {g \in {0, samplerate - One, samplerate - 1} : 0 <= g /\ g < samplerate}

UnitRunning ==
    [instance |-> TRUE, inputProc |-> TRUE, format |-> TRUE,
     initialized |-> TRUE, running |-> TRUE]

InitCb ==
    /\ \E sr \in SampleRates, ch \in 1..MaxChannels :
         \E g \in StartPhases(sr) :
            /\ context = [generator |-> g, samplerate |-> sr, channels |-> ch,
                          audioUnit |-> "unit"]
            /\ start = g
            /\ ref = NewRef([generator |-> g, samplerate |-> sr,
                              channels |-> ch, audioUnit |-> "unit"])
    /\ unit = UnitRunning
    /\ pc = "loop"
    /\ shouldStop = FALSE
    /\ handler = TRUE
    /\ exitStatus = NoExit
    /\ stdout = <<>>
    /\ ret = 0
    /\ attempted = <<1, 2, 3, 4, 5, 6>>
    /\ cb = NoCall
    /\ stream = <<>>
    /\ callLog = <<>>
    /\ stopCalls = 0

NextCb == Render \/ CallbackFrame \/ CallbackReturn

SpecCb == InitCb /\ [][NextCb]_vars

----------------------------------------------------------------------------
\* Properties of the render callback (checked under SpecCb)

RECURSIVE Sum(_)
Sum(seq) == IF seq = <<>> THEN 0 ELSE Head(seq) + Sum(Tail(seq))

\* the phase the k-th frame of the last invocation began with
PhaseBefore(k) == IF k = 1 THEN cb.before.generator ELSE cb.phases[k - 1]

\* C1: after every callback invocation the stored phase is in [0, P):
\* at least 0 and strictly less than the sample period.
C1_PhaseInHalfOpenRange ==
    Returned =>
        /\ 0 <= context.generator
        /\ context.generator < samplePeriodOf(context)

\* C2: call-chunking invariance: the callback invocations of a session that
\* began at phase 0, with frame counts summing to T, yield the per-frame
\* phases and samples, and the final stored phase, of a single invocation
\* of T frames from phase 0.
C2_ChunkingInvariance ==
    (Returned /\ start = 0) =>
        /\ ref.i = Sum(callLog)
        /\ stream = ref.stream
        /\ context.generator = ref.generator

C2_Witness ==
    /\ Returned
    /\ start = 0
    /\ Len(callLog) = 3
    /\ \A k \in 1..3 : callLog[k] > 0
    /\ \E k \in 1..Len(stream) : stream[k][1] < One

\* C3: an invocation of N frames on C channels writes exactly the slots
\* 0 .. N*C - 1, each once, and the C slots of frame i hold the sample of
\* the phase reached after the i-th increment of that invocation.
C3_InterleavedBroadcast ==
    Returned =>
        /\ Len(cb.phases) = cb.n
        /\ \A k \in 1..cb.n :
              cb.phases[k] = NextPhase(PhaseBefore(k), cb.samplePeriod).generator
        /\ \A s \in DOMAIN cb.data :
              IF s < cb.n * cb.before.channels
              THEN /\ cb.writes[s] = 1
                   /\ cb.data[s] = sinf(cb.phases[(s \div cb.before.channels) + 1],
                                        samplePeriodOf(cb.before))
              ELSE /\ cb.writes[s] = 0
                   /\ cb.data[s] = Unwritten

C3_Witness ==
    /\ Returned
    /\ cb.n = 3
    /\ cb.before.channels = 2
    /\ cb.data[0] # cb.data[2]
    /\ cb.data[4] = cb.data[5]

\* C4: an invocation of 0 frames leaves the stored phase as it was, writes
\* no slot of the buffer, leaves samplerate and channels alone and returns
\* noErr.
C4_ZeroFrames ==
    (Returned /\ cb.n = 0) =>
        /\ context.generator = cb.before.generator
        /\ \A s \in DOMAIN cb.data : cb.writes[s] = 0 /\ cb.data[s] = Unwritten
        /\ context.samplerate = cb.before.samplerate
        /\ context.channels = cb.before.channels
        /\ cb.status = noErr

C4_Witness ==
    /\ Returned
    /\ cb.n = 0
    /\ Len(callLog) > 1
    /\ context.generator # start

\* C6: every invocation returns noErr, having rendered all its frames and
\* committed the phase it reached to the context; inside the loop the
\* frame index never passes the frame count.
C6_AlwaysSucceeds ==
    /\ Returned =>
          /\ cb.status = noErr
          /\ cb.i = cb.n
          /\ context.generator = cb.generator
          /\ cb.generator = (IF cb.n = 0 THEN cb.before.generator
                             ELSE cb.phases[cb.n])
    /\ cb.pc = "loop" => (cb.i <= cb.n /\ Len(cb.phases) = cb.i)

C6_Witness ==
    /\ Returned
    /\ cb.n > 1
    /\ cb.wraps > 0
    /\ context.generator # cb.before.generator

\* C9: within one invocation of N frames from a phase g in [0, P) every
\* frame adds exactly 1 to the phase and subtracts P at most once, exactly
\* when the incremented phase exceeds P; the stored phase is g + N - k*P
\* for the number k of such frames; 101 frames from phase 0 at
\* P = 44100/440 subtract P exactly once and end in [0, P).
C9_WrapAccounting ==
    (/\ Returned
     /\ 0 <= cb.before.generator
     /\ cb.before.generator < samplePeriodOf(cb.before)) =>
        /\ \A k \in 1..cb.n :
              /\ cb.incs[k] = PhaseBefore(k) + One
              /\ cb.phases[k] = (IF cb.incs[k] > samplePeriodOf(cb.before)
                                 THEN cb.incs[k] - samplePeriodOf(cb.before)
                                 ELSE cb.incs[k])
        /\ cb.wraps = Cardinality({k \in 1..cb.n :
                                     cb.incs[k] > samplePeriodOf(cb.before)})
        /\ context.generator =
              cb.before.generator + cb.n * One
                 - cb.wraps * samplePeriodOf(cb.before)
        /\ (/\ cb.before.samplerate = MainSamplerate
            /\ cb.before.generator = 0
            /\ cb.n = 101) =>
              /\ cb.wraps = 1
              /\ 0 <= context.generator
              /\ context.generator < samplePeriodOf(context)

C9_Witness ==
    /\ Returned
    /\ cb.before.samplerate = MainSamplerate
    /\ cb.before.generator = 0
    /\ cb.n = 101
    /\ cb.wraps = 1
    /\ context.generator = 101 * One - MainSamplerate

----------------------------------------------------------------------------
\* Properties of the program (checked under Spec and LiveSpec)

\* C5 as stated: at 44100Hz on 2 channels from phase 0, the stored phase is
\* 100 after an invocation of 100 frames and 101 after a following
\* invocation of 1 frame, whose two slots hold the sample of phase 101.
C5_PhaseAfter101Is101 ==
    /\ (Returned /\ callLog = <<100>>) => context.generator = 100 * One
    /\ (Returned /\ callLog = <<100, 1>>) =>
          /\ context.generator = 101 * One
          /\ cb.data[0] = sinf(101 * One, samplePeriodOf(context))
          /\ cb.data[1] = sinf(101 * One, samplePeriodOf(context))

\* C5 as amended: the stored phase is 100 after the invocation of 100
\* frames (no subtraction yet); the following invocation of 1 frame
\* subtracts the period once and stores 101 - P, and both slots of its
\* frame hold the sample of that phase.
C5_PhaseAfter101Wrapped ==
    /\ (Returned /\ callLog = <<100>>) =>
          /\ context.generator = 100 * One
          /\ cb.wraps = 0
    /\ (Returned /\ callLog = <<100, 1>>) =>
          /\ cb.before.generator = 100 * One
          /\ cb.wraps = 1
          /\ context.generator = 101 * One - samplePeriodOf(context)
          /\ cb.data[0] = sinf(context.generator, samplePeriodOf(context))
          /\ cb.data[1] = sinf(context.generator, samplePeriodOf(context))
          /\ cb.writes[0] = 1
          /\ cb.writes[1] = 1

C5_Witness ==
    /\ Returned
    /\ callLog = <<100, 1>>
    /\ context.samplerate = MainSamplerate
    /\ context.channels = MainChannels
    /\ start = 0

\* the fields of the context other than audioUnit keep their values
KeepsOscillator ==
    /\ context'.generator = context.generator
    /\ context'.samplerate = context.samplerate
    /\ context'.channels = context.channels

\* C7: samplerate and channels are written by main before the audio unit
\* is started and by nothing after; the phase is written by main before
\* the start and then by the callback only; startAudio and stopAudio write
\* only audioUnit, the callback writes only generator; main writes no field
\* the callback reads while an invocation is in progress.
C7_FieldWriters ==
    [][ /\ (\/ context'.samplerate # context.samplerate
            \/ context'.channels # context.channels) => MainInit
        /\ context'.generator # context.generator
              => (MainInit \/ CallbackReturn)
        /\ (MainStart \/ MainStop) => KeepsOscillator
        /\ CallbackReturn =>
              /\ context'.samplerate = context.samplerate
              /\ context'.channels = context.channels
              /\ context'.audioUnit = context.audioUnit
        /\ MainInit => (~unit.running /\ ~unit'.running /\ cb.pc = "idle")
        /\ (MainThread /\ (unit.running \/ cb.pc = "loop")) => KeepsOscillator
      ]_vars

C7_Witness ==
    /\ pc = "done"
    /\ Len(callLog) > 1
    /\ context.generator > 0
    /\ context.audioUnit = "NULL"

\* C8: startAudio attempts its six steps in order, returns the number of
\* the first step that fails without attempting a later one and 0 when all
\* succeed; after a non-zero result the audio unit is not started and the
\* callback never runs, main exits with EXIT_FAILURE without entering the
\* wait loop, and what main reports tells the failed step from the others.
C8_FailFastReported ==
    ret # NoRet =>
        /\ ret \in 0..6
        /\ attempted = [k \in 1..(IF ret = 0 THEN 6 ELSE ret) |-> k]
        /\ ret = 0 => unit.instance /\ unit.inputProc /\ unit.format
                        /\ unit.initialized
        /\ ret # 0 =>
              /\ ~unit.running
              /\ callLog = <<>>
              /\ pc = "failed"
              /\ exitStatus = EXIT_FAILURE
              /\ ~handler
              /\ stopCalls = 0
              /\ \A r \in (1..6) \ {ret} : MainReport(r) # stdout

\* C10: once the handler is installed a delivered SIGINT sets shouldStop;
\* shouldStop leads to main having left the loop, called stopAudio exactly
\* once (unit stopped, audioUnit NULL) and returned EXIT_SUCCESS; no
\* callback invocation begins after stopAudio; without shouldStop the loop
\* is never left and stopAudio never called.
C10_GracefulShutdown ==
    /\ [][(SigInt /\ handler) => shouldStop']_vars
    /\ shouldStop ~> (/\ pc = "done"
                      /\ exitStatus = EXIT_SUCCESS
                      /\ stopCalls = 1
                      /\ context.audioUnit = "NULL"
                      /\ ~unit.running)
    /\ [](stopCalls <= 1)
    /\ [][stopCalls > 0 => ~Render]_vars
    /\ [](stopCalls > 0 => cb.pc = "idle")
    /\ [](~shouldStop => (pc \notin {"stop", "done"} /\ stopCalls = 0))

C10_Witness ==
    /\ pc = "done"
    /\ shouldStop
    /\ stopCalls = 1
    /\ exitStatus = EXIT_SUCCESS
    /\ Len(callLog) > 0
    /\ ~unit.running

====
